---- MODULE Spec2Model ----
(***************************************************************************)
(* Model of the two helpers of Personal-Helpers:                           *)
(*   helpers/create_date_folders_in_images.py  (create_image_directories)  *)
(*   helpers/process_heic_images.py  (parse_identify_output,               *)
(*                                    process_heic_images)                 *)
(* Strings are sequences of one-character strings, so that the regular     *)
(* expressions, glob patterns and splitext of the source are computed on   *)
(* the characters as Python computes them.                                 *)
(***************************************************************************)
EXTENDS Integers, Sequences, FiniteSets, TLC

VARIABLES
    \* ---- parse_identify_output ----
    text,        \* text.splitlines(): the lines still to be read and those read
    idx,         \* index of the next line of the for loop
    ppc,         \* "loop" while in the for loop, "done" after return result
    heap,        \* the dict objects: heap[1] is result, a dict is a sequence of entries
    stack,       \* the list stack of (indent, dict) pairs, top last
    placed,      \* history: per line read, the dict it was stored in (0: line skipped)
    opened,      \* history: per line read, the dict it created (0: none)
    \* ---- the two file utilities ----
    util,        \* which script runs: "organizer", "heic" or "none"
    targetKind,  \* what the path argument names: "dir", "file" or "missing"
    fs,          \* the tree below the target: path -> tag
    fs0,         \* history: fs when the script started
    pc,          \* position of the running script
    run,         \* organizer: 1 in the first invocation, 2 in the second
    fsFirst,     \* history: fs when the first invocation returned
    todo,        \* organizer: entries of files not yet visited by the for loop
    made,        \* organizer: names handed to os.makedirs under images in this run
    heic_paths,  \* pipeline: the list heic_paths
    k,           \* pipeline: index of the next file of the metadata loop
    cmds,        \* pipeline: the subprocess.run calls so far, in order
    out,         \* pipeline: the messages printed so far, in order
    converted    \* history: the .jpg names written by the conversion command

parserVars == <<text, idx, ppc, heap, stack, placed, opened>>
fileVars == <<util, targetKind, fs, fs0, pc, run, fsFirst, todo, made,
              heic_paths, k, cmds, out, converted>>
vars == <<text, idx, ppc, heap, stack, placed, opened,
          util, targetKind, fs, fs0, pc, run, fsFirst, todo, made,
          heic_paths, k, cmds, out, converted>>

(***************************************************************************)
(* Bounds of the model.                                                    *)
(***************************************************************************)
MaxLines == 3
MaxEntries == 3
MaxFiles == 3

(***************************************************************************)
(* Python string primitives on character sequences.                        *)
(***************************************************************************)
Drop(s, n) == SubSeq(s, n + 1, Len(s))

Take(s, n) == SubSeq(s, 1, n)

\* str.lstrip(): the string without its leading whitespace
lstrip(s) ==
    IF \A i \in 1..Len(s) : s[i] = " " THEN <<>>
    ELSE Drop(s, (CHOOSE i \in 1..Len(s) :
                     s[i] # " " /\ \A j \in 1..(i - 1) : s[j] = " ") - 1)

\* str.rstrip()
rstrip(s) ==
    IF \A i \in 1..Len(s) : s[i] = " " THEN <<>>
    ELSE Take(s, CHOOSE i \in 1..Len(s) :
                     s[i] # " " /\ \A j \in (i + 1)..Len(s) : s[j] = " ")

\* str.strip()
strip(s) == rstrip(lstrip(s))

\* str.endswith(suffix)
endswith(s, suffix) ==
    /\ Len(s) >= Len(suffix)
    /\ Drop(s, Len(s) - Len(suffix)) = suffix

(***************************************************************************)
(* parse_identify_output                                                   *)
(***************************************************************************)
\* indent = len(line) - len(line.lstrip())
Indent(line) == Len(line) - Len(lstrip(line))

\* re.match(r"^\s*(.+?):\s*(.*)$", line): \s* is greedy (the longest run of
\* leading whitespace that still lets the rest match), (.+?) is lazy (at least
\* one character, up to the first colon after it), \s*(.*)$ takes the rest.
\* A candidate <<w, p>> is w whitespace characters followed by a key that ends
\* before a colon at position p.
MatchCands(line) ==
    {c \in (0..Indent(line)) \X (1..Len(line)) :
        /\ c[2] >= c[1] + 2
        /\ line[c[2]] = ":"}

re_match(line) ==
    LET cands == MatchCands(line) IN
    IF cands = {} THEN [ok |-> FALSE, g1 |-> <<>>, g2 |-> <<>>]
    ELSE LET w == CHOOSE w \in {c[1] : c \in cands} :
                      \A c \in cands : c[1] <= w
             p == CHOOSE p \in {c[2] : c \in {d \in cands : d[1] = w}} :
                      \A c \in {d \in cands : d[1] = w} : p <= c[2]
         IN [ok |-> TRUE,
             g1 |-> SubSeq(line, w + 1, p - 1),
             g2 |-> lstrip(Drop(line, p))]

\* the values a dict holds: a str, a list, or a reference to a dict object
StrV(s) == [kind |-> "str", s |-> s, items |-> <<>>, ref |-> 0]

ListV(items) == [kind |-> "list", s |-> <<>>, items |-> items, ref |-> 0]

DictV(r) == [kind |-> "dict", s |-> <<>>, items |-> <<>>, ref |-> r]

\* key in d
HasKey(d, key) == \E e \in 1..Len(d) : d[e].k = key

\* d[key]
Get(d, key) == d[CHOOSE e \in 1..Len(d) : d[e].k = key].v

\* d[key] = v (an existing key keeps its place, a new key goes last)
Put(d, key, v) ==
    IF HasKey(d, key)
    THEN [e \in 1..Len(d) |-> IF d[e].k = key THEN [k |-> key, v |-> v] ELSE d[e]]
    ELSE Append(d, [k |-> key, v |-> v])

\* while stack and indent < stack[-1][0]: stack.pop()   (a wrong comparison)
PopWhileStrict(s, indent) ==
    LET keep == {j \in 1..Len(s) : s[j].indent <= indent} IN
    IF keep = {} THEN <<>>
    ELSE Take(s, CHOOSE j \in keep : \A i \in keep : i <= j)

\* while stack and indent <= stack[-1][0]: stack.pop()
\* the loop stops at the topmost pair whose indent is below the line's
PopWhile(s, indent) ==
    LET keep == {j \in 1..Len(s) : s[j].indent < indent} IN
    IF keep = {} THEN <<>>
    ELSE Take(s, CHOOSE j \in keep : \A i \in keep : i <= j)

\* parent = stack[-1][1] if stack else result
Parent(s) == IF s # <<>> THEN s[Len(s)].ref ELSE 1

\* the else branch of lines 40-47: insert the value, or append it to a list
\* made of what the key held
StoreValue(d, key, value) ==
    IF HasKey(d, key)
    THEN LET cur == Get(d, key)
             lst == IF cur.kind = "list" THEN cur.items ELSE <<cur>>
         IN Put(d, key, ListV(Append(lst, StrV(value))))
    ELSE Put(d, key, StrV(value))

\* whether the loop body reaches line 28 for this line
IsKV(line) == strip(line) # <<>> /\ re_match(line).ok

KeyOf(line) == strip(re_match(line).g1)

ValueOf(line) == strip(re_match(line).g2)

\* the lines the texts are made of
Lines ==
    { <<"A", ":">>,                                 \* "A:"
      <<" ", " ", "B", ":", " ", "1">>,             \* "  B: 1"
      <<" ", " ", "C", ":", " ", "2">>,             \* "  C: 2"
      <<" ", " ", "B", ":">>,                       \* "  B:"
      <<" ", " ", " ", " ", "C", ":", " ", "2">>,   \* "    C: 2"
      <<"X", ":", " ", "1">>,                       \* "X: 1"
      <<"X", ":", " ", "2">>,                       \* "X: 2"
      <<"A", ":", " ", "1">>,                       \* "A: 1"
      <<>>,                                         \* ""
      <<"z", "z">>,                                 \* "zz"
      <<"d", ":", "c", ":", " ", "1">>,             \* "d:c: 1"
      <<"d", ":", "m", ":", " ", "2">> }            \* "d:m: 2"

Texts == UNION {[1..n -> Lines] : n \in 0..MaxLines}

ParserIdle ==
    /\ text = <<>>
    /\ idx = 1
    /\ ppc = "idle"
    /\ heap = <<>>
    /\ stack = <<>>
    /\ placed = <<>>
    /\ opened = <<>>

FilesIdle ==
    /\ util = "none"
    /\ targetKind = "missing"
    /\ fs = <<>>
    /\ fs0 = <<>>
    /\ pc = "idle"
    /\ run = 1
    /\ fsFirst = <<>>
    /\ todo = {}
    /\ made = {}
    /\ heic_paths = <<>>
    /\ k = 1
    /\ cmds = <<>>
    /\ out = <<>>
    /\ converted = {}

\* lines 14-15: result = {}; stack = [(0, result)]
InitParse ==
    /\ text \in Texts
    /\ idx = 1
    /\ ppc = "loop"
    /\ heap = << <<>> >>
    /\ stack = << [indent |-> 0, ref |-> 1] >>
    /\ placed = <<>>
    /\ opened = <<>>
    /\ FilesIdle

\* one iteration of the for loop, lines 17-47
ParseLine ==
    /\ ppc = "loop"
    /\ idx <= Len(text)
    /\ LET line == text[idx] IN
       IF ~IsKV(line)
       THEN /\ UNCHANGED <<heap, stack>>
            /\ placed' = Append(placed, 0)
            /\ opened' = Append(opened, 0)
       ELSE LET indent == Indent(line)
                key == KeyOf(line)
                value == ValueOf(line)
                stk == PopWhile(stack, indent)
                parent == Parent(stk)
                new == Len(heap) + 1
            IN IF value = <<>>
               THEN /\ heap' = Append([heap EXCEPT ![parent] = Put(@, key, DictV(new))], <<>>)
                    /\ stack' = Append(stk, [indent |-> indent, ref |-> new])
                    /\ placed' = Append(placed, parent)
                    /\ opened' = Append(opened, new)
               ELSE /\ heap' = [heap EXCEPT ![parent] = StoreValue(@, key, value)]
                    /\ stack' = stk
                    /\ placed' = Append(placed, parent)
                    /\ opened' = Append(opened, 0)
    /\ idx' = idx + 1
    /\ UNCHANGED <<text, ppc>>
    /\ UNCHANGED fileVars

\* line 48: return result
ParseReturn ==
    /\ ppc = "loop"
    /\ idx > Len(text)
    /\ ppc' = "done"
    /\ UNCHANGED <<text, idx, heap, stack, placed, opened>>
    /\ UNCHANGED fileVars

NextParse == ParseLine \/ ParseReturn

SpecParse == InitParse /\ [][NextParse]_vars


(***************************************************************************)
(* The file tree and the os / glob / re calls of the two scripts.          *)
(* fs maps a path below the target (a sequence of names) to what is there: *)
(* "dir", or for a regular file what it holds ("file": what it held at the *)
(* start, "json": a metadata sidecar, "jpg": a converted image,            *)
(* "stripped": an image whose metadata was stripped).                      *)
(* The trees hold regular files and directories; the external tools can be *)
(* started and end with a zero or a non-zero return code.                  *)
(***************************************************************************)
Digits == {"0", "1", "2", "3", "4", "5", "6", "7", "8", "9"}

ImagesName == <<"i", "m", "a", "g", "e", "s">>

\* the set of permutations of a finite set, as sequences
Perms(S) ==
    {q \in [1..Cardinality(S) -> S] :
        \A i, j \in 1..Cardinality(S) : i # j => q[i] # q[j]}

Range(q) == {q[i] : i \in 1..Len(q)}

\* os.path.isdir(target_dir) / os.path.isdir(target_path), with a wrong test
\* (os.path.exists) before it
TargetExists == targetKind # "missing"

TargetIsDir == targetKind = "dir"

\* os.path.isfile(filepath) for an entry of the target
isfile(f, name) == <<name>> \in DOMAIN f /\ f[<<name>>] # "dir"

\* the names glob.glob(os.path.join(target, "*" + suffix)) returns: the
\* entries that end with the suffix and do not start with a dot
globSuffix(f, suffix) ==
    {p[1] : p \in {x \in DOMAIN f :
                      /\ Len(x) = 1
                      /\ x[1] # <<>>
                      /\ x[1][1] # "."
                      /\ endswith(x[1], suffix)}}

\* date_regex.search(filename), date_regex = r"\d{4}-\d{2}-\d{2}"
date_regex_search(name) ==
    \E i \in 1..(Len(name) - 9) :
        /\ \A j \in {0, 1, 2, 3, 5, 6, 8, 9} : name[i + j] \in Digits
        /\ name[i + 4] = "-"
        /\ name[i + 7] = "-"

\* os.path.splitext(filename)[0]: cut at the last dot, unless only dots
\* come before it
splitext_root(name) ==
    LET dots == {i \in 1..Len(name) : name[i] = "."} IN
    IF dots = {} THEN name
    ELSE LET d == CHOOSE i \in dots : \A j \in dots : j <= i IN
         IF \E j \in 1..(d - 1) : name[j] # "." THEN Take(name, d - 1) ELSE name

\* os.makedirs(path) without exist_ok: an existing path is an error
makedirs_strict(f, path) ==
    IF path \in DOMAIN f
    THEN [err |-> TRUE, fs |-> f]
    ELSE [err |-> FALSE,
          fs |-> [p \in DOMAIN f \cup {Take(path, n) : n \in 1..Len(path)} |->
                     IF p \in DOMAIN f THEN f[p] ELSE "dir"]]

\* os.makedirs(path, exist_ok=True): creates the missing directories of the
\* path; an existing directory is left alone, a regular file in the way is
\* an error
makedirs(f, path) ==
    IF \E n \in 1..Len(path) : Take(path, n) \in DOMAIN f /\ f[Take(path, n)] # "dir"
    THEN [err |-> TRUE, fs |-> f]
    ELSE [err |-> FALSE,
          fs |-> [p \in DOMAIN f \cup {Take(path, n) : n \in 1..Len(path)} |->
                     IF p \in DOMAIN f THEN f[p] ELSE "dir"]]

\* a write of a regular file: open(path, "w") or a tool's output file
WriteFile(f, name, tag) ==
    [p \in DOMAIN f \cup {<<name>>} |-> IF p = <<name>> THEN tag ELSE f[p]]

WriteFiles(f, names, tag) ==
    [p \in DOMAIN f \cup {<<n>> : n \in names} |->
        IF p \in {<<n>> : n \in names} THEN tag ELSE f[p]]

RemoveFiles(f, names) ==
    [p \in DOMAIN f \ {<<n>> : n \in names} |-> f[p]]

(***************************************************************************)
(* create_image_directories                                                *)
(***************************************************************************)
OrgNames ==
    { <<"2", "0", "2", "4", "-", "0", "1", "-", "0", "1", ".", "j", "p", "g">>,  \* 2024-01-01.jpg
      <<"2", "0", "2", "4", "-", "0", "1", "-", "0", "1">>,                      \* 2024-01-01
      <<"n", ".", "t", "x", "t">>,                                               \* n.txt
      <<".", "2", "0", "2", "4", "-", "0", "1", "-", "0", "2", ".", "j">>,       \* .2024-01-02.j
      <<"2", "0", "2", "4", "-", "1", "-", "0", "1", ".", "j", "p", "g">>,       \* 2024-1-01.jpg
      <<"p", ".", "2", "0", "2", "4", "-", "0", "1", "-", "0", "1">> }           \* p.2024-01-01

\* directories an images directory may already hold
OldSubdirs ==
    { <<"2", "0", "2", "4", "-", "0", "1", "-", "0", "1">>,   \* 2024-01-01
      <<"o", "l", "d">> }                                     \* old

\* a target holding the entries of kinds, and an images directory or not
OrgTree(kinds, hasImages, subs) ==
    LET top == {<<n>> : n \in DOMAIN kinds}
        img == IF hasImages
               THEN {<<ImagesName>>} \cup {<<ImagesName, x>> : x \in subs}
               ELSE {}
    IN [p \in top \cup img |-> IF p \in top THEN kinds[p[1]] ELSE "dir"]

OrgTrees ==
    UNION {UNION {{OrgTree(kinds, FALSE, {})}
                   \cup {OrgTree(kinds, TRUE, subs) : subs \in SUBSET OldSubdirs} :
                  kinds \in [S -> {"file", "dir"}]} :
           S \in {T \in SUBSET OrgNames : Cardinality(T) <= MaxEntries}}

InitOrganizer ==
    /\ ParserIdle
    /\ util = "organizer"
    /\ targetKind \in {"dir", "file", "missing"}
    /\ fs \in (IF targetKind = "dir" THEN OrgTrees ELSE {<<>>})
    /\ fs0 = fs
    /\ pc = "start"
    /\ run = 1
    /\ fsFirst = <<>>
    /\ todo = {}
    /\ made = {}
    /\ heic_paths = <<>>
    /\ k = 1
    /\ cmds = <<>>
    /\ out = <<>>
    /\ converted = {}

\* lines 9-10: raise NotADirectoryError unless the target is a directory
OrgCheckDir ==
    /\ util = "organizer"
    /\ pc = "start"
    /\ pc' = IF TargetIsDir THEN "mkimages" ELSE "raised"
    /\ UNCHANGED <<util, targetKind, fs, fs0, run, fsFirst, todo, made,
                   heic_paths, k, cmds, out, converted>>
    /\ UNCHANGED parserVars

\* lines 14-15: os.makedirs(images_dir, exist_ok=True)
OrgMakeImages ==
    /\ util = "organizer"
    /\ pc = "mkimages"
    /\ LET r == makedirs(fs, <<ImagesName>>) IN
       /\ fs' = r.fs
       /\ pc' = IF r.err THEN "raised" ELSE "glob"
    /\ UNCHANGED <<util, targetKind, fs0, run, fsFirst, todo, made,
                   heic_paths, k, cmds, out, converted>>
    /\ UNCHANGED parserVars

\* lines 18-19: files = glob.glob(os.path.join(target_dir, "*"))
OrgGlob ==
    /\ util = "organizer"
    /\ pc = "glob"
    /\ todo' = globSuffix(fs, <<>>)
    /\ pc' = "loop"
    /\ UNCHANGED <<util, targetKind, fs, fs0, run, fsFirst, made,
                   heic_paths, k, cmds, out, converted>>
    /\ UNCHANGED parserVars

\* lines 24-35: one iteration of the for loop; glob returns the entries in
\* no particular order
OrgVisit ==
    /\ util = "organizer"
    /\ pc = "loop"
    /\ \E name \in todo :
          /\ todo' = todo \ {name}
          /\ IF isfile(fs, name) /\ date_regex_search(name)
             THEN LET r == makedirs(fs, <<ImagesName, splitext_root(name)>>) IN
                  /\ fs' = r.fs
                  /\ made' = IF r.err THEN made ELSE made \cup {splitext_root(name)}
                  /\ pc' = IF r.err THEN "raised" ELSE "loop"
             ELSE UNCHANGED <<fs, made, pc>>
    /\ UNCHANGED <<util, targetKind, fs0, run, fsFirst,
                   heic_paths, k, cmds, out, converted>>
    /\ UNCHANGED parserVars

\* the for loop is exhausted and the function returns
OrgReturn ==
    /\ util = "organizer"
    /\ pc = "loop"
    /\ todo = {}
    /\ pc' = "done"
    /\ fsFirst' = IF run = 1 THEN fs ELSE fsFirst
    /\ UNCHANGED <<util, targetKind, fs, fs0, run, todo, made,
                   heic_paths, k, cmds, out, converted>>
    /\ UNCHANGED parserVars

\* the script is run a second time on the same target
OrgRerun ==
    /\ util = "organizer"
    /\ pc = "done"
    /\ run = 1
    /\ run' = 2
    /\ pc' = "start"
    /\ made' = {}
    /\ UNCHANGED <<util, targetKind, fs, fs0, fsFirst, todo,
                   heic_paths, k, cmds, out, converted>>
    /\ UNCHANGED parserVars

NextOrganizer ==
    \/ OrgCheckDir
    \/ OrgMakeImages
    \/ OrgGlob
    \/ OrgVisit
    \/ OrgReturn
    \/ OrgRerun


(***************************************************************************)
(* process_heic_images                                                     *)
(***************************************************************************)
ExtHEIC == <<".", "H", "E", "I", "C">>

ExtHeic == <<".", "h", "e", "i", "c">>

ExtJpg == <<".", "j", "p", "g">>

MetadataSuffix == <<"_", "m", "e", "t", "a", "d", "a", "t", "a", ".", "j", "s", "o", "n">>

HeicNames ==
    { <<"a", ".", "H", "E", "I", "C">>,          \* a.HEIC
      <<"a", ".", "h", "e", "i", "c">>,          \* a.heic
      <<"b", ".", "h", "e", "i", "c">>,          \* b.heic
      <<"c", ".", "j", "p", "g">>,               \* c.jpg
      <<".", "h", ".", "h", "e", "i", "c">>,     \* .h.heic
      <<"d", ".", "H", "e", "i", "c">>,          \* d.Heic
      <<"n", ".", "t", "x", "t">> }              \* n.txt

HeicTrees ==
    {[p \in {<<n>> : n \in S} |-> "file"] :
        S \in {T \in SUBSET HeicNames : Cardinality(T) <= MaxFiles}}

\* lines 66-69: metadata_file = <base_name>_metadata.json
metadata_file(name) == splitext_root(name) \o MetadataSuffix

\* the image "magick mogrify -format jpg" writes for a file
jpg_of(name) == splitext_root(name) \o ExtJpg

\* where the metadata loop goes after a file when a failed identify ends the
\* function (no except clause)
ExtractNextUncaught(ok) ==
    IF ~ok THEN "raised"
    ELSE IF k + 1 > Len(heic_paths) THEN "convert" ELSE "extract"

\* lines 71-85: the try/except catches the failed identify and the for loop
\* goes on with the next file, or ends
ExtractNext(ok) == IF k + 1 > Len(heic_paths) THEN "convert" ELSE "extract"

\* where the function goes after the conversion command when a failed
\* conversion ends the function
ConvertNextAbort(ok) == IF ok THEN "strip" ELSE "done"

\* lines 98-102: the failed conversion is caught, the stripping stage is next
ConvertNext(ok) == "strip"

InitHeic ==
    /\ ParserIdle
    /\ util = "heic"
    /\ targetKind \in {"dir", "file", "missing"}
    /\ fs \in (IF targetKind = "dir" THEN HeicTrees ELSE {<<>>})
    /\ fs0 = fs
    /\ pc = "start"
    /\ run = 1
    /\ fsFirst = <<>>
    /\ todo = {}
    /\ made = {}
    /\ heic_paths = <<>>
    /\ k = 1
    /\ cmds = <<>>
    /\ out = <<>>
    /\ converted = {}

\* lines 53-55: print the error and return unless the target is a directory
HeicCheckDir ==
    /\ util = "heic"
    /\ pc = "start"
    /\ IF TargetIsDir
       THEN pc' = "glob" /\ out' = out
       ELSE pc' = "done" /\ out' = Append(out, "Error: not a valid directory")
    /\ UNCHANGED <<util, targetKind, fs, fs0, run, fsFirst, todo, made,
                   heic_paths, k, cmds, converted>>
    /\ UNCHANGED parserVars

\* lines 58-62: the two globs, each in no particular order, and the message
\* when there is no file
HeicGlob ==
    /\ util = "heic"
    /\ pc = "glob"
    /\ \E upper \in Perms(globSuffix(fs, ExtHEIC)) :
       \E lower \in Perms(globSuffix(fs, ExtHeic)) :
          /\ heic_paths' = upper \o lower
          /\ IF upper \o lower = <<>>
             THEN pc' = "convert" /\ out' = Append(out, "No HEIC files found")
             ELSE pc' = "extract" /\ out' = out
    /\ k' = 1
    /\ UNCHANGED <<util, targetKind, fs, fs0, run, fsFirst, todo, made,
                   cmds, converted>>
    /\ UNCHANGED parserVars

\* lines 65-85: one iteration of the metadata loop; identify returns zero
\* (the sidecar is written) or non-zero (CalledProcessError, caught)
HeicExtract ==
    /\ util = "heic"
    /\ pc = "extract"
    /\ k <= Len(heic_paths)
    /\ \E ok \in BOOLEAN :
          /\ cmds' = Append(cmds, [cmd |-> "identify", args |-> <<heic_paths[k]>>, ok |-> ok])
          /\ IF ok
             THEN /\ fs' = WriteFile(fs, metadata_file(heic_paths[k]), "json")
                  /\ out' = out \o <<"Collecting metadata", "Metadata written">>
             ELSE /\ fs' = fs
                  /\ out' = out \o <<"Collecting metadata", "Error collecting metadata">>
          /\ pc' = ExtractNext(ok)
    /\ k' = k + 1
    /\ UNCHANGED <<util, targetKind, fs0, run, fsFirst, todo, made,
                   heic_paths, converted>>
    /\ UNCHANGED parserVars

\* lines 88-102: one mogrify call over all the files; when it fails it may
\* have written any of the images
HeicConvert ==
    /\ util = "heic"
    /\ pc = "convert"
    /\ IF heic_paths # <<>>
       THEN \E ok \in BOOLEAN : \E S \in SUBSET Range(heic_paths) :
               /\ ok => S = Range(heic_paths)
               /\ cmds' = Append(cmds, [cmd |-> "convert", args |-> heic_paths, ok |-> ok])
               /\ fs' = WriteFiles(fs, {jpg_of(n) : n \in S}, "jpg")
               /\ converted' = {jpg_of(n) : n \in S}
               /\ out' = out \o <<"Converting",
                                  IF ok THEN "Conversion complete" ELSE "Error during conversion">>
               /\ pc' = ConvertNext(ok)
       ELSE /\ pc' = "strip"
            /\ UNCHANGED <<cmds, fs, converted, out>>
    /\ UNCHANGED <<util, targetKind, fs0, run, fsFirst, todo, made, heic_paths, k>>
    /\ UNCHANGED parserVars

\* lines 105-113: one mogrify -strip call over every *.jpg of the target
HeicStrip ==
    /\ util = "heic"
    /\ pc = "strip"
    /\ IF globSuffix(fs, ExtJpg) # {}
       THEN \E jpg_paths \in Perms(globSuffix(fs, ExtJpg)) :
            \E ok \in BOOLEAN : \E S \in SUBSET Range(jpg_paths) :
               /\ ok => S = Range(jpg_paths)
               /\ cmds' = Append(cmds, [cmd |-> "strip", args |-> jpg_paths, ok |-> ok])
               /\ fs' = WriteFiles(fs, S, "stripped")
               /\ out' = out \o <<"Stripping metadata",
                                  IF ok THEN "Metadata stripped" ELSE "Error stripping metadata">>
       ELSE UNCHANGED <<cmds, fs, out>>
    /\ pc' = "delete"
    /\ UNCHANGED <<util, targetKind, fs0, run, fsFirst, todo, made,
                   heic_paths, k, converted>>
    /\ UNCHANGED parserVars

\* lines 116-123: one rm -f call over all the originals
HeicDelete ==
    /\ util = "heic"
    /\ pc = "delete"
    /\ IF heic_paths # <<>>
       THEN \E ok \in BOOLEAN : \E S \in SUBSET Range(heic_paths) :
               /\ ok => S = Range(heic_paths)
               /\ cmds' = Append(cmds, [cmd |-> "rm", args |-> heic_paths, ok |-> ok])
               /\ fs' = RemoveFiles(fs, S)
               /\ out' = out \o <<"Deleting originals",
                                  IF ok THEN "Originals deleted" ELSE "Error deleting HEIC files">>
       ELSE UNCHANGED <<cmds, fs, out>>
    /\ pc' = "done"
    /\ UNCHANGED <<util, targetKind, fs0, run, fsFirst, todo, made,
                   heic_paths, k, converted>>
    /\ UNCHANGED parserVars

NextHeic ==
    \/ HeicCheckDir
    \/ HeicGlob
    \/ HeicExtract
    \/ HeicConvert
    \/ HeicStrip
    \/ HeicDelete

Init == InitOrganizer \/ InitHeic

Next == NextOrganizer \/ NextHeic

Spec == Init /\ [][Next]_vars


(***************************************************************************)
(* Properties of the two file utilities.                                   *)
(***************************************************************************)
\* the tree holds no file with the .HEIC or .heic extension
NoHeicFile(f) ==
    \A p \in DOMAIN f : ~endswith(p[1], ExtHEIC) /\ ~endswith(p[1], ExtHeic)

\* C1: on a directory with no .HEIC/.heic file the pipeline reports that no
\* files were found, invokes no external command and writes nothing,
\* whatever else the directory holds.
C1_NoFilesNoEffects ==
    (util = "heic" /\ targetKind = "dir" /\ NoHeicFile(fs0) /\ pc = "done") =>
        /\ out = <<"No HEIC files found">>
        /\ cmds = <<>>
        /\ fs = fs0

\* the i-th command is the identify call for the i-th matched file
IsIdentifyOf(i) ==
    /\ cmds[i].cmd = "identify"
    /\ cmds[i].args = <<heic_paths[i]>>

\* C2 (state part): the first commands are the identify calls of the matched
\* files, one per file and in the list's order, whatever their outcome; the
\* sidecar of every file whose identify succeeded is in place; and once the
\* metadata loop is over the next command is the conversion of all files.
C2_ExtractInv ==
    util = "heic" =>
        /\ \A i \in 1..Len(cmds) :
              i <= Len(heic_paths) =>
                 /\ IsIdentifyOf(i)
                 /\ cmds[i].ok =>
                       /\ <<metadata_file(heic_paths[i])>> \in DOMAIN fs
                       /\ fs[<<metadata_file(heic_paths[i])>>] = "json"
        /\ pc = "extract" => Len(cmds) = k - 1 /\ k <= Len(heic_paths)
        /\ (pc \in {"strip", "delete", "done"} /\ heic_paths # <<>>) =>
              /\ Len(cmds) > Len(heic_paths)
              /\ cmds[Len(heic_paths) + 1].cmd = "convert"
              /\ cmds[Len(heic_paths) + 1].args = heic_paths

\* C2 (step part): a failed identify is reported, changes no file, and the
\* function goes on with the next file or with the conversion stage.
C2_ExtractStep ==
    (util = "heic" /\ pc = "extract" /\ Len(cmds') = Len(cmds) + 1
        /\ ~cmds'[Len(cmds')].ok) =>
        /\ fs' = fs
        /\ out' = out \o <<"Collecting metadata", "Error collecting metadata">>
        /\ k' = k + 1
        /\ pc' = IF k < Len(heic_paths) THEN "extract" ELSE "convert"

\* C2: a failed identify for one file is caught and reported, writes no
\* sidecar, leaves the earlier sidecars in place, and identify is still run
\* for every later file and the conversion command after them.
C2_IdentifyFailureIsolated == [](C2_ExtractInv) /\ [][C2_ExtractStep]_vars

\* C2 witness: three files; the first sidecar was written, the second
\* identify failed, the third was still run and the conversion followed.
C2_Witness ==
    /\ util = "heic"
    /\ pc = "done"
    /\ Len(heic_paths) = 3
    /\ cmds[1].ok /\ ~cmds[2].ok
    /\ IsIdentifyOf(3)
    /\ cmds[4].cmd = "convert"
    /\ fs[<<metadata_file(heic_paths[1])>>] = "json"
    /\ <<metadata_file(heic_paths[2])>> \notin DOMAIN fs

\* the files of the tree create_image_directories is to make directories for
ExpectedDirs ==
    {splitext_root(p[1]) :
        p \in {x \in DOMAIN fs0 :
                  Len(x) = 1 /\ fs0[x] = "file" /\ date_regex_search(x[1])}}

\* C3: after a run on a valid directory the directories made under images
\* are exactly the extension-less names of the regular files of the target
\* whose name holds a dddd-dd-dd token, and nothing that existed was moved,
\* renamed or removed.
C3_MadeExactly ==
    (util = "organizer" /\ targetKind = "dir" /\ run = 1 /\ pc = "done") =>
        /\ made = ExpectedDirs
        /\ \A d \in ExpectedDirs :
              <<ImagesName, d>> \in DOMAIN fs /\ fs[<<ImagesName, d>>] = "dir"
        /\ \A p \in DOMAIN fs0 : p \in DOMAIN fs /\ fs[p] = fs0[p]

\* C4: the second run of create_image_directories raises no error and, at
\* every point of it, the tree is the tree the first run left.
C4_Idempotent ==
    (util = "organizer" /\ run = 2) =>
        /\ pc # "raised"
        /\ fs = fsFirst

\* C4 witness: the second run has returned after handing os.makedirs the
\* directories the first run made, and the tree is the first run's.
C4_Witness ==
    /\ util = "organizer"
    /\ run = 2
    /\ pc = "done"
    /\ made # {}
    /\ \A d \in made : <<ImagesName, d>> \in DOMAIN fsFirst
    /\ <<ImagesName>> \notin DOMAIN fs0
    /\ fs = fsFirst

\* C8: when the path is not an existing directory, neither utility changes
\* the tree or runs a command: create_image_directories raises
\* NotADirectoryError at once, process_heic_images prints the error and
\* returns.
C8_NotADirectory ==
    (targetKind # "dir" /\ pc # "start") =>
        /\ fs = fs0
        /\ cmds = <<>>
        /\ util = "organizer" => pc = "raised"
        /\ util = "heic" => pc = "done" /\ out = <<"Error: not a valid directory">>

\* C8 witness: process_heic_images has returned on a path that is a regular
\* file, after printing the error.
C8_Witness ==
    /\ util = "heic"
    /\ targetKind = "file"
    /\ pc = "done"
    /\ out = <<"Error: not a valid directory">>

\* a strip command was run
StripRan == \E i \in 1..Len(cmds) : cmds[i].cmd = "strip"

\* C9: the pipeline never raises; with at least one matched file the
\* commands are, in this order, identify for each file, the conversion of
\* all files, the strip (left out only when no converted .jpg exists) and the
\* removal of all originals, whatever the outcome of each command; and no
\* command of a later stage is run while an earlier stage is not over.
C9_StageOrder ==
    util = "heic" =>
        /\ pc # "raised"
        /\ pc \in {"start", "glob"} => cmds = <<>>
        /\ pc = "extract" => \A i \in 1..Len(cmds) : cmds[i].cmd = "identify"
        /\ (pc = "convert" /\ heic_paths # <<>>) =>
              /\ Len(cmds) = Len(heic_paths)
              /\ \A i \in 1..Len(cmds) : IsIdentifyOf(i)
        /\ (pc = "strip" /\ heic_paths # <<>>) =>
              /\ Len(cmds) = Len(heic_paths) + 1
              /\ cmds[Len(cmds)].cmd = "convert"
        /\ (pc = "done" /\ heic_paths # <<>>) =>
              LET n == Len(heic_paths) IN
              /\ Len(cmds) = n + 2 + (IF StripRan THEN 1 ELSE 0)
              /\ \A i \in 1..n : IsIdentifyOf(i)
              /\ cmds[n + 1].cmd = "convert" /\ cmds[n + 1].args = heic_paths
              /\ StripRan => cmds[n + 2].cmd = "strip"
              /\ cmds[Len(cmds)].cmd = "rm" /\ cmds[Len(cmds)].args = heic_paths
              /\ ~StripRan => converted = {}

\* C9 witness: identify, the conversion and the strip all failed, and the
\* removal of the originals was still issued, last.
C9_Witness ==
    /\ util = "heic"
    /\ pc = "done"
    /\ Len(heic_paths) = 2
    /\ Len(cmds) = 5
    /\ ~cmds[1].ok /\ ~cmds[3].ok /\ ~cmds[4].ok
    /\ cmds[4].cmd = "strip"
    /\ cmds[5].cmd = "rm"

(***************************************************************************)
(* What the text alone says about nesting.                                 *)
(***************************************************************************)
\* line j of t opens a level: a key/value line with an empty value
Opens(t, j) == IsKV(t[j]) /\ ValueOf(t[j]) = <<>>

\* the level line j opened is still open when line n is read: no key/value
\* line between them is indented less than or equal to line j
StillOpen(t, j, n) ==
    /\ Opens(t, j)
    /\ \A m \in (j + 1)..(n - 1) : IsKV(t[m]) => Indent(t[m]) > Indent(t[j])

\* the open levels indented strictly less than line n
Enclosing(t, n) ==
    {j \in 1..(n - 1) : StillOpen(t, j, n) /\ Indent(t[j]) < Indent(t[n])}

Innermost(t, n) ==
    CHOOSE j \in Enclosing(t, n) :
        \A i \in Enclosing(t, n) : Indent(t[i]) <= Indent(t[j])

\* the dict line n belongs in: the innermost enclosing level's, else result
ExpectedDict(n) ==
    IF Enclosing(text, n) = {} THEN 1 ELSE opened[Innermost(text, n)]

\* "A:\n  B: 1\n  C: 2\n"
ExampleText ==
    << <<"A", ":">>,
       <<" ", " ", "B", ":", " ", "1">>,
       <<" ", " ", "C", ":", " ", "2">> >>

\* {"A": {"B": "1", "C": "2"}}
ExampleHeap ==
    << << [k |-> <<"A">>, v |-> DictV(2)] >>,
       << [k |-> <<"B">>, v |-> StrV(<<"1">>)],
          [k |-> <<"C">>, v |-> StrV(<<"2">>)] >> >>

\* the dicts of the returned tree: those result refers to, directly or not
DictRefs(d) ==
    {d[e].v.ref : e \in {x \in 1..Len(d) : d[x].v.kind = "dict"}}
    \cup UNION {{d[e].v.items[i].ref :
                    i \in {y \in 1..Len(d[e].v.items) : d[e].v.items[y].kind = "dict"}} :
                e \in 1..Len(d)}

RECURSIVE ReachFrom(_, _)
ReachFrom(S, n) ==
    IF n = 0 THEN S
    ELSE ReachFrom(S \cup UNION {DictRefs(heap[d]) : d \in S}, n - 1)

TreeDicts == ReachFrom({1}, Len(heap))

\* C5 (state part): every key/value line read so far was stored in the dict
\* of the innermost still-open level indented strictly less than the line
\* (result when there is none); a blank or non-matching line is stored
\* nowhere and opens nothing; and "A:\n  B: 1\n  C: 2\n" returns
\* {"A": {"B": "1", "C": "2"}}.
C5_PlacementInv ==
    /\ \A n \in 1..Len(placed) :
          IF IsKV(text[n])
          THEN /\ placed[n] = ExpectedDict(n)
               /\ HasKey(heap[placed[n]], KeyOf(text[n]))
               /\ (opened[n] # 0) = (ValueOf(text[n]) = <<>>)
          ELSE placed[n] = 0 /\ opened[n] = 0
    /\ (ppc = "done" /\ text = ExampleText) => heap = ExampleHeap

\* C5 (step part): a blank or non-matching line changes neither the dicts
\* nor the stack; a key/value line changes only the dict it belongs in, where
\* its key then holds a new empty dict (empty value), or its value, alone or
\* last in a list.
C5_PlacementStep ==
    (ppc = "loop" /\ idx' = idx + 1) =>
        IF ~IsKV(text[idx])
        THEN heap' = heap /\ stack' = stack
        ELSE LET d == ExpectedDict(idx)
                 key == KeyOf(text[idx])
                 value == ValueOf(text[idx])
                 got == Get(heap'[d], key)
             IN /\ \A o \in 1..Len(heap) : o # d => heap'[o] = heap[o]
                /\ HasKey(heap'[d], key)
                /\ IF value = <<>>
                   THEN /\ Len(heap') = Len(heap) + 1
                        /\ got = DictV(Len(heap'))
                        /\ heap'[Len(heap')] = <<>>
                   ELSE /\ Len(heap') = Len(heap)
                        /\ \/ got = StrV(value)
                           \/ /\ got.kind = "list"
                              /\ got.items[Len(got.items)] = StrV(value)

\* C5: every key/value line is placed in the mapping of the innermost
\* still-open level indented strictly less than the line, or in the root
\* mapping when there is none, where a level is opened by an empty-valued line
\* and closed by the first later key/value line indented less than or equal
\* to it; blank and non-matching lines insert nothing and open or close no
\* level; "A:\n  B: 1\n  C: 2\n" yields {"A": {"B": "1", "C": "2"}}.
C5_Placement == [](C5_PlacementInv) /\ [][C5_PlacementStep]_vars

\* C5 witness: the example has been parsed, and B and C sit in the dict A opened
C5_Witness ==
    /\ ppc = "done"
    /\ text = ExampleText
    /\ heap = ExampleHeap
    /\ placed = <<1, 2, 2>>

\* the lines stored in dict d under key with a non-empty value, in order
Occurrences(d, key) ==
    {n \in 1..Len(placed) :
        /\ IsKV(text[n])
        /\ placed[n] = d
        /\ KeyOf(text[n]) = key
        /\ ValueOf(text[n]) # <<>>}

NthOf(S, i) == CHOOSE j \in S : Cardinality({x \in S : x <= j}) = i

OccurrenceValues(d, key) ==
    [i \in 1..Cardinality(Occurrences(d, key)) |->
        StrV(ValueOf(text[NthOf(Occurrences(d, key), i)]))]

\* C6: in the returned tree, a key that occurs n >= 2 times with a non-empty
\* value in one mapping maps to the list of exactly those n values in their
\* order of occurrence, and a key that occurs once with a non-empty value
\* maps to that string.
C6_RepeatedKeyList ==
    ppc = "done" =>
        \A d \in TreeDicts : \A n \in 1..Len(text) :
            (IsKV(text[n]) /\ placed[n] = d /\ ValueOf(text[n]) # <<>>) =>
                LET key == KeyOf(text[n]) IN
                /\ HasKey(heap[d], key)
                /\ Get(heap[d], key) =
                      IF Cardinality(Occurrences(d, key)) >= 2
                      THEN ListV(OccurrenceValues(d, key))
                      ELSE StrV(ValueOf(text[n]))

\* C7: every value of the returned tree, at every level, is a string, a list
\* whose elements are all strings, or a nested mapping.
C7_ValueShapes ==
    ppc = "done" =>
        \A d \in TreeDicts : \A e \in 1..Len(heap[d]) :
            LET v == heap[d][e].v IN
            \/ v.kind = "str"
            \/ v.kind = "dict"
            \/ /\ v.kind = "list"
               /\ \A i \in 1..Len(v.items) : v.items[i].kind = "str"

\* the first position of a colon followed by a space (0: none)
FirstColonSpace(line) ==
    LET P == {p \in 1..(Len(line) - 1) : line[p] = ":" /\ line[p + 1] = " "} IN
    IF P = {} THEN 0 ELSE CHOOSE p \in P : \A q \in P : p <= q

\* C10: a line is split at its first ": ": the key it is stored under is
\* everything before that ": " (for "d:c: 1" the key is "d:c").
C10_SplitAtColonSpace ==
    \A n \in 1..Len(placed) :
        LET line == text[n]
            p == FirstColonSpace(line)
        IN (p > 1 /\ strip(Take(line, p - 1)) # <<>>) =>
              /\ placed[n] # 0
              /\ HasKey(heap[placed[n]], strip(Take(line, p - 1)))

====
